---- MODULE Spec2Model ----
(***************************************************************************)
(* notmuch-gmail-sync: the synchronisation engine NotmuchGmailSync         *)
(* (__main__.py) and the PID-file guard PIDFile (util.py).                 *)
(*                                                                         *)
(* The remote store (GmailAPI), the local store (Maildir) and the          *)
(* persisted configuration (Config) are modelled from their contracts:     *)
(* their modules are imported by __main__.py but are not part of the       *)
(* sources at hand.                                                        *)
(***************************************************************************)
EXTENDS Integers, FiniteSets, Sequences, TLC

\* ---------------------------------------------------------------- bounds
MaxIds == 1
MaxHist == 2
MaxFullIds == 3
MaxProcs == 3

Ids == 1..MaxIds
FullIds == 1..MaxFullIds
Procs == 1..MaxProcs
TagSets == {{}, {"x"}}
LocalOnly == {"draft"}

\* config.get_last_history_id() returns None before the first completed run;
\* the remote store's history ids start at 1.
NoCursor == 0

\* open(self.filepath, 'r') fails when there is no PID file; other_pid = None.
\* The pids of the invocations are 1..MaxProcs.
NoFile == 0
NoPid == 0

\* the PID file exists and is empty: open(self.filepath, 'w') has truncated or
\* created it and nothing has been written yet
EmptyFile == -2

\* main has not returned yet
NoExit == -1

\* main has not returned: an exception none of its handlers catches left it
MainRaised == -3

\* what an invocation has open: nothing, or the file that is at the path of
\* the PID file; the pid of an invocation stands for the file that invocation
\* unlinked, which lives on while it is open
NoFd == 0
OnDisk == -4

VARIABLES
    \* remote store (GmailAPI)
    r_tags,            \* live remote messages: id -> tag set
    r_born,            \* id -> history id of its creation (0: never created)
    r_mod,             \* id -> history id of its last change
    hid,               \* the remote store's current history id
    histFloor,         \* oldest cursor the remote store can still resolve
    \* local store (Maildir)
    l_tags,            \* locally known messages: id -> tag set
    l_dirty,           \* ids modified locally after the local "as of" marker
    l_fresh,           \* local-only messages created after the marker
    \* persisted configuration (Config)
    last_history_id,
    local_wins,
    push_local_tags,
    \* one invocation of NotmuchGmailSync.run
    pc,
    changes,
    all_local,
    r_all,
    local_ids,
    history_id_start,
    \* bookkeeping of the run, used to state the properties
    mode,              \* "none", "incremental", "full"
    fallback,          \* why the incremental attempt was left
    done,              \* the steps this run has executed, in order
    pre,               \* the ChangeSet as merge received it
    outcome,           \* how the previous run ended
    tainted,           \* an external change happened during this run
    clean,             \* the last run completed untainted, nothing changed since
    pushedNow,         \* ids this run pushed, not changed remotely since
    echo,              \* the same, of the last run that persisted its cursor
    \* the PID file and the invocations of main that contend for it
    pidfile,           \* the pid the file holds; NoFile when there is no file
    lk_pc,             \* invocation -> where it is
    lk_other,          \* invocation -> other_pid of PIDFile.create
    lk_exit,           \* invocation -> what main returned; NoExit before
    lk_fd,             \* invocation -> the file it has open
    lk_lost,           \* invocation -> what the file it unlinked holds
    lk_dir,            \* the status directory, which holds the PID file, exists
    \* fetch, call by call
    index_batch_size,  \* config.index_batch_size
    f_todo,            \* ids api.get_content has still to deliver
    batch,             \* fetch's batch: stored message -> tags
    stored,            \* the messages mdir.store was called for
    indexed,           \* the calls of mdir.index, in order: the batch of each
    \* the comparison of an aborted and retried run with an uninterrupted one
    trial,             \* which of the runs is under way
    snap,              \* stores and cursor before the run
    ref                \* stores and cursor after the uninterrupted run

remoteVars == <<r_tags, r_born, r_mod, hid, histFloor>>
localVars == <<l_tags, l_dirty, l_fresh>>
configVars == <<last_history_id, local_wins, push_local_tags>>
tempVars == <<changes, all_local, r_all, local_ids, history_id_start>>
ghostVars == <<mode, fallback, done, pre, outcome, tainted, clean,
               pushedNow, echo>>
lockVars == <<pidfile, lk_pc, lk_other, lk_exit, lk_fd, lk_lost, lk_dir>>
fetchVars == <<index_batch_size, f_todo, batch, stored, indexed>>
retryVars == <<trial, snap, ref>>
vars == <<remoteVars, localVars, configVars, pc, tempVars, ghostVars, lockVars,
          fetchVars, retryVars>>

\* ------------------------------------------------------------ dict helpers
EmptyMap == [i \in {} |-> {}]

\* dict.update(other)
DictUpdate(f, g) ==
    [i \in (DOMAIN f) \cup (DOMAIN g) |-> IF i \in DOMAIN g THEN g[i] ELSE f[i]]

\* del d[k] for every k of ks
DictDrop(f, ks) == [i \in (DOMAIN f) \ ks |-> f[i]]

\* ------------------------------------------------------------- ChangeSet
Changes(l_updated, l_new, r_updated, r_new, r_deleted, history_id) ==
    [l_updated |-> l_updated, l_new |-> l_new,
     r_updated |-> r_updated, r_new |-> r_new, r_deleted |-> r_deleted,
     history_id |-> history_id]

NoChanges == Changes(EmptyMap, {}, EmptyMap, {}, {}, NoCursor)


\* ------------------------------------------------- remote store (GmailAPI)
\* api.history_id()
history_id == hid

\* the "cursor too old" condition of api.get_changes(h)
TooOld(h) == h < histFloor

\* api.get_changes(h): the net difference between the store at h and now
get_changes(h) ==
    [updated |-> [i \in {j \in DOMAIN r_tags : r_mod[j] > h /\ r_born[j] <= h}
                    |-> r_tags[i]],
     new     |-> {i \in DOMAIN r_tags : r_born[i] > h},
     deleted |-> {i \in (DOMAIN r_born) \ DOMAIN r_tags :
                    r_born[i] > 0 /\ r_born[i] <= h /\ r_mod[i] > h}]

\* api.all_ids(): the live ids, delivered in pages, one remote request per
\* page; seen are the ids of the pages delivered so far, and the pages still
\* to come are those of the ids the store holds past them
RECURSIVE PagesOf(_)
PagesOf(S) ==
    IF S = {} THEN << >>
    ELSE LET m == CHOOSE x \in S : \A y \in S : x <= y
         IN  <<{m}>> \o PagesOf(S \ {m})

all_ids(seen) == PagesOf({i \in DOMAIN r_tags : \A j \in seen : i > j})

\* api.get_content(ids, callback): one message per id the store holds at the
\* time the message is delivered
get_content(ids) == [i \in ids \cap DOMAIN r_tags |-> r_tags[i]]

\* -------------------------------------------------- local store (Maildir)
\* mdir.get_changes()
mdir_get_changes ==
    [updated |-> [i \in l_dirty \cap DOMAIN l_tags |-> l_tags[i]],
     new     |-> l_fresh]

\* mdir.all_messages()
all_messages == l_tags

\* mdir.apply_tags(tags) on the messages the store holds
mdir_apply_tags(tags) ==
    LET hit == [i \in (DOMAIN tags) \cap (DOMAIN l_tags) |-> tags[i]]
    IN  /\ l_tags' = DictUpdate(l_tags, hit)
        /\ l_dirty' = l_dirty \cup DOMAIN hit
        /\ UNCHANGED l_fresh

\* mdir.index(batch) for stored messages: they enter the index with their tags
mdir_store_index(msgs) ==
    /\ l_tags' = DictUpdate(l_tags, msgs)
    /\ l_dirty' = l_dirty \cup DOMAIN msgs
    /\ UNCHANGED l_fresh

\* mdir.delete(ids)
mdir_delete(ids) ==
    /\ l_tags' = DictDrop(l_tags, ids)
    /\ l_dirty' = l_dirty \ ids
    /\ UNCHANGED l_fresh

\* ------------------------------------------------------------------ Init
\* a map from some of the ids of U to the tag sets of T
Mailboxes(U, T) == UNION {[S -> T] : S \in SUBSET U}

\* what persists from one run to the next: both stores and the cursor
Persistent ==
    [r_tags |-> r_tags, r_born |-> r_born, r_mod |-> r_mod, hid |-> hid,
     l_tags |-> l_tags, l_dirty |-> l_dirty, l_fresh |-> l_fresh,
     last_history_id |-> last_history_id]

\* nothing has run yet
InitProgram ==
    /\ trial = "none"
    /\ snap = Persistent
    /\ ref = Persistent
    /\ pc = "idle"
    /\ changes = NoChanges
    /\ all_local = EmptyMap
    /\ r_all = {}
    /\ local_ids = {}
    /\ history_id_start = NoCursor
    /\ mode = "none"
    /\ fallback = "none"
    /\ done = << >>
    /\ pre = NoChanges
    /\ outcome = "none"
    /\ tainted = FALSE
    /\ clean = FALSE
    /\ pushedNow = {}
    /\ echo = {}
    /\ pidfile = NoFile
    /\ lk_pc = [p \in Procs |-> "new"]
    /\ lk_other = [p \in Procs |-> NoPid]
    /\ lk_exit = [p \in Procs |-> NoExit]
    /\ lk_fd = [p \in Procs |-> NoFd]
    /\ lk_lost = [p \in Procs |-> NoFile]
    /\ f_todo = {}
    /\ batch = EmptyMap
    /\ stored = {}
    /\ indexed = << >>

\* no invocation of main is under way, and the status directory exists
InitRun ==
    /\ InitProgram
    /\ lk_dir = TRUE

\* a remote mailbox of untagged messages, never synchronised so far
Init ==
    /\ r_tags \in Mailboxes(Ids, {{}})
    /\ r_born = [i \in Ids |-> IF i \in DOMAIN r_tags THEN 1 ELSE 0]
    /\ r_mod = r_born
    /\ hid = 1
    /\ histFloor = 1
    /\ l_tags = EmptyMap
    /\ l_dirty = {}
    /\ l_fresh = {}
    /\ last_history_id = NoCursor
    /\ local_wins \in BOOLEAN
    /\ push_local_tags \in BOOLEAN
    /\ index_batch_size = 1
    /\ InitRun


\* ------------------------------------------ pure parts of change detection
\* a variant of IsNew with the membership test inverted
IsNew_inverted(i, al) == i \in DOMAIN al

\* changes_full: "if i not in all_local"
IsNew(i, al) == i \notin DOMAIN al

\* changes_full: the loop over the pages of api.all_ids()
RECURSIVE Enumerate(_, _, _)
Enumerate(pages, al, acc) ==
    IF pages = << >> THEN acc
    ELSE Enumerate(Tail(pages), al,
                   [r_all |-> acc.r_all \cup Head(pages),
                    r_new |-> acc.r_new \cup {i \in Head(pages) : IsNew(i, al)}])

\* changes_full: "Looking for remote message deletions..."
RemoteDeletions(ra, al) ==
    IF al # EmptyMap
    THEN [r_deleted |-> ra \ DOMAIN al,
          local_ids |-> (DOMAIN al) \ (ra \ DOMAIN al)]
    ELSE [r_deleted |-> {}, local_ids |-> {}]

\* changes_full: the callback given to api.get_content(local_ids, callback)
TagCallback(msgs, al) ==
    [i \in {j \in DOMAIN msgs : al[j] # msgs[j]} |-> msgs[i]]

\* a variant of CatchUp that merges the tag changes alone
CatchUp_updated_only(ch, d) ==
    [ch EXCEPT !.r_updated = DictUpdate(ch.r_updated, d.updated)]

\* changes_full: merging the catch-up diff
CatchUp(ch, d) ==
    [ch EXCEPT !.r_updated = DictUpdate(ch.r_updated, d.updated),
               !.r_new = ch.r_new \cup d.new,
               !.r_deleted = ch.r_deleted \cup d.deleted]

\* a variant of Resolve that looks at local_wins alone
Resolve_local_wins_only(ch, lw, plt) ==
    LET conflicts == (DOMAIN ch.l_updated) \cap (DOMAIN ch.r_updated)
    IN  IF conflicts = {} THEN ch
        ELSE IF lw
             THEN [ch EXCEPT !.r_updated = DictDrop(ch.r_updated, conflicts)]
             ELSE [ch EXCEPT !.l_updated = DictDrop(ch.l_updated, conflicts)]

\* merge: conflict resolution
Resolve(ch, lw, plt) ==
    LET conflicts == (DOMAIN ch.l_updated) \cap (DOMAIN ch.r_updated)
    IN  IF conflicts = {} THEN ch
        ELSE IF lw /\ plt
             THEN [ch EXCEPT !.r_updated = DictDrop(ch.r_updated, conflicts)]
             ELSE [ch EXCEPT !.l_updated = DictDrop(ch.l_updated, conflicts)]

\* a variant of AfterMerge that applies the remote tags again
AfterMerge_reapply(ch) ==
    IF ch.r_updated # EmptyMap /\ pc = "merge_apply" THEN "merge_apply"
    ELSE IF ch.r_new # {} THEN "fetch" ELSE "delete"

\* run: the conditions that decide which step comes next
AfterMerge(ch) == IF ch.r_new # {} THEN "fetch" ELSE "delete"

AfterPush(ch) == IF ch.r_updated # EmptyMap THEN "merge_apply" ELSE AfterMerge(ch)

\* a variant of AfterResolve that pushes whatever push_local_tags says
AfterResolve_always_push(ch, plt) ==
    IF ch.l_updated # EmptyMap THEN "merge_push" ELSE AfterPush(ch)

\* merge: "if self.config.push_local_tags and changes.l_updated"
AfterResolve(ch, plt) ==
    IF plt /\ ch.l_updated # EmptyMap THEN "merge_push" ELSE AfterPush(ch)

AfterChanges(ch) ==
    IF ch.l_updated # EmptyMap \/ ch.r_updated # EmptyMap
    THEN "merge_resolve" ELSE AfterMerge(ch)


\* ------------------------------------------------- NotmuchGmailSync.run
Log(step) == done' = Append(done, step)

\* run is entered: umask, auth, api.update_labels are about to be done
Start ==
    /\ pc = "idle"
    /\ pc' = "setup"
    /\ mode' = "none"
    /\ fallback' = "none"
    /\ done' = << >>
    /\ pre' = NoChanges
    /\ tainted' = FALSE
    /\ pushedNow' = {}
    /\ UNCHANGED <<retryVars, fetchVars, lockVars, remoteVars, localVars, configVars,
                   tempVars, outcome, clean, echo>>

\* self.auth(); self.api.update_labels()
Setup ==
    /\ pc = "setup"
    /\ pc' = "incremental"
    /\ UNCHANGED <<retryVars, fetchVars, lockVars, remoteVars, localVars, configVars,
                   tempVars, ghostVars>>

\* changes_incremental: no cursor persisted, HistoryError('No history yet')
ChangesIncremental_nocursor ==
    /\ pc = "incremental"
    /\ last_history_id = NoCursor
    /\ pc' = "full_local"
    /\ mode' = "full"
    /\ fallback' = "nocursor"
    /\ UNCHANGED <<retryVars, fetchVars, lockVars, remoteVars, localVars, configVars,
                   tempVars, done, pre,
                   outcome, tainted, clean, pushedNow, echo>>

\* changes_incremental: history_id = self.api.history_id()
ChangesIncremental_cursor ==
    /\ pc = "incremental"
    /\ last_history_id # NoCursor
    /\ changes' = [changes EXCEPT !.history_id = history_id]
    /\ mode' = "incremental"
    /\ pc' = "incr_diff"
    /\ UNCHANGED <<retryVars, fetchVars, lockVars, remoteVars, localVars, configVars,
                   all_local, r_all, local_ids,
                   history_id_start, fallback, done, pre, outcome,
                   tainted, clean, pushedNow, echo>>

\* changes_incremental: self.api.get_changes(last_history_id) succeeds
ChangesIncremental_diff ==
    /\ pc = "incr_diff"
    /\ ~TooOld(last_history_id)
    /\ LET d == get_changes(last_history_id)
       IN  changes' = [changes EXCEPT !.r_updated = d.updated,
                                      !.r_new = d.new,
                                      !.r_deleted = d.deleted]
    /\ pc' = "incr_local"
    /\ UNCHANGED <<retryVars, fetchVars, lockVars, remoteVars, localVars, configVars,
                   all_local, r_all, local_ids,
                   history_id_start, ghostVars>>

\* changes_incremental: "except GAPIError: raise HistoryError(...)", whatever
\* made get_changes raise: the cursor is too old ("tooold") or the call failed
\* for another reason ("other")
ChangesIncremental_error(cause) ==
    /\ pc = "incr_diff"
    /\ cause = "tooold" => TooOld(last_history_id)
    /\ changes' = NoChanges
    /\ pc' = "full_local"
    /\ mode' = "full"
    /\ fallback' = cause
    /\ UNCHANGED <<retryVars, fetchVars, lockVars, remoteVars, localVars, configVars,
                   all_local, r_all, local_ids,
                   history_id_start, done, pre, outcome, tainted,
                   clean, pushedNow, echo>>

\* changes_incremental: l_updated, l_new = self.mdir.get_changes(); return
ChangesIncremental_local ==
    /\ pc = "incr_local"
    /\ LET l == mdir_get_changes
           ch == [changes EXCEPT !.l_updated = l.updated, !.l_new = l.new]
       IN  /\ changes' = ch
           /\ pc' = AfterChanges(ch)
    /\ Log("changes")
    /\ UNCHANGED <<retryVars, fetchVars, lockVars, remoteVars, localVars, configVars,
                   all_local, r_all, local_ids,
                   history_id_start, mode, fallback, pre, outcome,
                   tainted, clean, pushedNow, echo>>

\* changes_full: mdir.get_changes(), mdir.all_messages()
ChangesFull_local ==
    /\ pc = "full_local"
    /\ LET l == mdir_get_changes
       IN  changes' = [NoChanges EXCEPT !.l_updated = l.updated, !.l_new = l.new]
    /\ all_local' = all_messages
    /\ pc' = "full_start"
    /\ UNCHANGED <<retryVars, fetchVars, lockVars, remoteVars, localVars, configVars,
                   r_all, local_ids,
                   history_id_start, ghostVars>>

\* changes_full: history_id_start = self.api.history_id()
ChangesFull_start ==
    /\ pc = "full_start"
    /\ history_id_start' = history_id
    /\ pc' = "full_enum"
    /\ UNCHANGED <<retryVars, fetchVars, lockVars, remoteVars, localVars, configVars,
                   changes, all_local, r_all,
                   local_ids, ghostVars>>

\* changes_full: one page of api.all_ids() is delivered and its ids are added
\* to r_all and, when not in all_local, to r_new
ChangesFull_enum ==
    /\ pc = "full_enum"
    /\ all_ids(r_all) # << >>
    /\ LET e == Enumerate(<<Head(all_ids(r_all))>>, all_local,
                          [r_all |-> r_all, r_new |-> changes.r_new])
       IN  /\ r_all' = e.r_all
           /\ changes' = [changes EXCEPT !.r_new = e.r_new]
    /\ UNCHANGED <<retryVars, fetchVars, lockVars, remoteVars, localVars, configVars,
                   pc, all_local, local_ids,
                   history_id_start, ghostVars>>

\* changes_full: api.all_ids() has no more pages; the deletion lookup, and
\* api.get_content(local_ids, callback) is called
ChangesFull_deletions ==
    /\ pc = "full_enum"
    /\ all_ids(r_all) = << >>
    /\ LET x == RemoteDeletions(r_all, all_local)
       IN  /\ local_ids' = x.local_ids
           /\ changes' = [changes EXCEPT !.r_deleted = x.r_deleted]
           /\ f_todo' = x.local_ids
           /\ pc' = IF x.local_ids = {} THEN "full_end" ELSE "full_tags"
    /\ UNCHANGED <<retryVars, index_batch_size, batch, stored, indexed, lockVars,
                   remoteVars, localVars, configVars, all_local, r_all,
                   history_id_start, ghostVars>>

\* changes_full: callback(msg) for the next message api.get_content delivers;
\* a message the remote store no longer holds is not delivered
ChangesFull_tags ==
    /\ pc = "full_tags"
    /\ \E i \in f_todo :
         /\ f_todo' = f_todo \ {i}
         /\ changes' = [changes EXCEPT
                          !.r_updated =
                              DictUpdate(changes.r_updated,
                                         TagCallback(get_content({i}), all_local))]
         /\ pc' = IF f_todo = {i} THEN "full_end" ELSE "full_tags"
    /\ UNCHANGED <<retryVars, index_batch_size, batch, stored, indexed, lockVars,
                   remoteVars, localVars, configVars, all_local, r_all, local_ids,
                   history_id_start, ghostVars>>

\* changes_full: history_id = self.api.history_id(), not past history_id_start
ChangesFull_end ==
    /\ pc = "full_end"
    /\ ~(history_id > history_id_start)
    /\ LET ch == [changes EXCEPT !.history_id = history_id]
       IN  /\ changes' = ch
           /\ pc' = AfterChanges(ch)
    /\ Log("changes")
    /\ UNCHANGED <<retryVars, fetchVars, lockVars, remoteVars, localVars, configVars,
                   all_local, r_all, local_ids,
                   history_id_start, mode, fallback, pre, outcome,
                   tainted, clean, pushedNow, echo>>

\* changes_full: history_id = self.api.history_id(), past history_id_start
ChangesFull_advanced ==
    /\ pc = "full_end"
    /\ history_id > history_id_start
    /\ changes' = [changes EXCEPT !.history_id = history_id]
    /\ pc' = "full_catchup"
    /\ UNCHANGED <<retryVars, fetchVars, lockVars, remoteVars, localVars, configVars,
                   all_local, r_all, local_ids,
                   history_id_start, ghostVars>>

\* changes_full: self.api.get_changes(history_id_start) merged into the result
ChangesFull_catchup ==
    /\ pc = "full_catchup"
    /\ ~TooOld(history_id_start)
    /\ LET ch == CatchUp(changes, get_changes(history_id_start))
       IN  /\ changes' = ch
           /\ pc' = AfterChanges(ch)
    /\ Log("changes")
    /\ UNCHANGED <<retryVars, fetchVars, lockVars, remoteVars, localVars, configVars,
                   all_local, r_all, local_ids,
                   history_id_start, mode, fallback, pre, outcome,
                   tainted, clean, pushedNow, echo>>


\* merge: conflict resolution ("Resolving conflicts...")
Merge_resolve ==
    /\ pc = "merge_resolve"
    /\ pre' = changes
    /\ LET ch == Resolve(changes, local_wins, push_local_tags)
       IN  /\ changes' = ch
           /\ pc' = AfterResolve(ch, push_local_tags)
    /\ Log("resolve")
    /\ UNCHANGED <<retryVars, fetchVars, lockVars, remoteVars, localVars, configVars,
                   all_local, r_all, local_ids,
                   history_id_start, mode, fallback, outcome,
                   tainted, clean, pushedNow, echo>>

\* merge: self.api.push_tags(changes.l_updated). The remote store records a
\* change, and its history id advances, for the messages whose tag set the
\* push changes: a message that has the pushed tags already is left as it is
Merge_push ==
    /\ pc = "merge_push"
    /\ LET hit == (DOMAIN changes.l_updated) \cap (DOMAIN r_tags)
           eff == {i \in hit : r_tags[i] # changes.l_updated[i]}
       IN  /\ r_tags' = DictUpdate(r_tags, [i \in hit |-> changes.l_updated[i]])
           /\ r_mod' = [i \in DOMAIN r_mod |-> IF i \in eff THEN hid + 1 ELSE r_mod[i]]
           /\ hid' = IF eff = {} THEN hid ELSE hid + 1
           /\ pushedNow' = hit
    /\ pc' = "merge_reread"
    /\ Log("push")
    /\ UNCHANGED <<retryVars, fetchVars, lockVars, r_born, histFloor, localVars,
                   configVars, tempVars, mode,
                   fallback, pre, outcome, tainted, clean, echo>>

\* a variant of Merge_reread that keeps the cursor read before the push
Merge_reread_stale ==
    /\ pc = "merge_reread"
    /\ pc' = AfterPush(changes)
    /\ Log("reread")
    /\ UNCHANGED <<retryVars, fetchVars, lockVars, remoteVars, localVars, configVars,
                   tempVars, mode, fallback,
                   pre, outcome, tainted, clean, pushedNow, echo>>

\* merge: changes.history_id = self.api.history_id()
Merge_reread ==
    /\ pc = "merge_reread"
    /\ LET ch == [changes EXCEPT !.history_id = history_id]
       IN  /\ changes' = ch
           /\ pc' = AfterPush(ch)
    /\ Log("reread")
    /\ UNCHANGED <<retryVars, fetchVars, lockVars, remoteVars, localVars, configVars,
                   all_local, r_all, local_ids,
                   history_id_start, mode, fallback, pre, outcome,
                   tainted, clean, pushedNow, echo>>

\* merge: self.mdir.apply_tags(changes.r_updated)
Merge_apply ==
    /\ pc = "merge_apply"
    /\ mdir_apply_tags(changes.r_updated)
    /\ pc' = AfterMerge(changes)
    /\ Log("apply")
    /\ UNCHANGED <<retryVars, fetchVars, lockVars, remoteVars, configVars, tempVars, mode,
                   fallback, pre,
                   outcome, tainted, clean, pushedNow, echo>>

\* ------------------------------------------------------ fetch, call by call
MaxMsgs == 4
MaxBatch == 3

FetchIds == 1..MaxMsgs
BatchSizes == 1..MaxBatch

\* mdir.store(msg): the message file is written; its location is its own
mdir_store(i) == stored' = stored \cup {i}

\* mdir.index(b): the stored messages of b enter the index with their tags
mdir_index(b) ==
    /\ mdir_store_index(b)
    /\ indexed' = Append(indexed, DOMAIN b)

\* a variant of FlushDue that lets the batch grow past the configured size
FlushDue_late(b, n) == Cardinality(DOMAIN b) > n

\* fetch: "if len(batch) == self.config.index_batch_size"
FlushDue(b, n) == Cardinality(DOMAIN b) = n

\* fetch: n = 0; batch = {}; api.get_content(new_ids, callback, fmt='raw')
\* is called
Fetch_begin ==
    /\ pc = "fetch"
    /\ f_todo' = changes.r_new
    /\ batch' = EmptyMap
    /\ pc' = "fetch_content"
    /\ UNCHANGED <<retryVars, index_batch_size, stored, indexed, lockVars, remoteVars,
                   localVars, configVars, tempVars, ghostVars>>

\* fetch: callback(msg) for the next message get_content delivers; a message
\* the remote store no longer holds is not delivered
Fetch_callback(i) ==
    /\ pc = "fetch_content"
    /\ i \in f_todo
    /\ f_todo' = f_todo \ {i}
    /\ IF get_content({i}) = EmptyMap
       THEN UNCHANGED <<batch, stored, localVars, indexed>>
       ELSE /\ mdir_store(i)
            /\ LET b == DictUpdate(batch, get_content({i}))
               IN  IF FlushDue(b, index_batch_size)
                   THEN /\ mdir_index(b)
                        /\ batch' = EmptyMap
                   ELSE /\ batch' = b
                        /\ UNCHANGED <<localVars, indexed>>
    /\ UNCHANGED <<retryVars, index_batch_size, lockVars, remoteVars, configVars, pc,
                   tempVars, ghostVars>>

\* a variant of Fetch_end that persists the cursor as soon as the messages
\* are in
Fetch_end_committing ==
    /\ pc = "fetch_content"
    /\ f_todo = {}
    /\ IF batch # EmptyMap
       THEN mdir_index(batch)
       ELSE UNCHANGED <<localVars, indexed>>
    /\ last_history_id' = changes.history_id
    /\ pc' = "delete"
    /\ Log("fetch")
    /\ UNCHANGED <<retryVars, index_batch_size, f_todo, batch, stored, lockVars, remoteVars,
                   local_wins, push_local_tags, tempVars, mode, fallback, pre,
                   outcome, tainted, clean, pushedNow, echo>>

\* fetch: get_content has returned; "if batch: self.mdir.index(batch)"
Fetch_end ==
    /\ pc = "fetch_content"
    /\ f_todo = {}
    /\ IF batch # EmptyMap
       THEN mdir_index(batch)
       ELSE UNCHANGED <<localVars, indexed>>
    /\ pc' = "delete"
    /\ Log("fetch")
    /\ UNCHANGED <<retryVars, index_batch_size, f_todo, batch, stored, lockVars, remoteVars,
                   configVars, tempVars, mode, fallback, pre, outcome, tainted,
                   clean, pushedNow, echo>>

\* delete: self.mdir.delete(remote_deleted)
Delete ==
    /\ pc = "delete"
    /\ mdir_delete(changes.r_deleted)
    /\ pc' = "persist_cursor"
    /\ Log("delete")
    /\ UNCHANGED <<retryVars, fetchVars, lockVars, remoteVars, configVars, tempVars, mode,
                   fallback, pre,
                   outcome, tainted, clean, pushedNow, echo>>

\* run: self.config.update_last_history_id(changes.history_id)
Persist_cursor ==
    /\ pc = "persist_cursor"
    /\ last_history_id' = changes.history_id
    /\ pc' = "persist_rev"
    /\ Log("cursor")
    /\ UNCHANGED <<retryVars, fetchVars, lockVars, remoteVars, localVars, local_wins,
                   push_local_tags, tempVars,
                   mode, fallback, pre, outcome, tainted, clean,
                   pushedNow, echo>>

\* the run's objects are gone once run is left
Leave ==
    /\ pc' = "exited"
    /\ changes' = NoChanges
    /\ all_local' = EmptyMap
    /\ r_all' = {}
    /\ local_ids' = {}
    /\ history_id_start' = NoCursor
    /\ mode' = "none"
    /\ fallback' = "none"
    /\ done' = << >>
    /\ pre' = NoChanges
    /\ tainted' = FALSE
    /\ pushedNow' = {}
    /\ f_todo' = {}
    /\ batch' = EmptyMap
    /\ stored' = {}
    /\ indexed' = << >>

\* run: self.config.update_last_notmuch_rev()
Persist_rev ==
    /\ pc = "persist_rev"
    /\ l_dirty' = {}
    /\ l_fresh' = {}
    /\ pc' = "run_return"
    /\ UNCHANGED <<retryVars, fetchVars, lockVars, remoteVars, l_tags, configVars,
                   tempVars, ghostVars>>

\* run returns
Run_return ==
    /\ pc = "run_return"
    /\ Leave
    /\ outcome' = "ok"
    /\ clean' = ~tainted
    /\ echo' = pushedNow
    /\ UNCHANGED <<retryVars, index_batch_size, lockVars, remoteVars, localVars,
                   configVars>>

\* the steps of run that call the remote store and can raise GAPIError there
\* (the call of get_changes in changes_incremental is handled in place)
RemoteCallPcs ==
    {"setup", "incremental", "full_start", "full_enum", "full_tags", "full_end",
     "full_catchup", "merge_push", "merge_reread", "fetch_content"}

\* an exception leaves run: GAPIError of a remote call, or KeyboardInterrupt
\* at any step. What the run pushed is remembered when its cursor was
\* persisted before the exception
Abort(kind) ==
    /\ pc \notin {"idle", "exited"}
    /\ kind = "gapi" =>
         /\ pc \in RemoteCallPcs
         /\ pc = "incremental" => last_history_id # NoCursor
    /\ Leave
    /\ outcome' = kind
    /\ clean' = FALSE
    /\ echo' = IF \E k \in 1..Len(done) : done[k] = "cursor" THEN pushedNow ELSE {}
    /\ UNCHANGED <<retryVars, index_batch_size, lockVars, remoteVars, localVars,
                   configVars>>

\* main has returned its exit code; the next invocation can start
Exit ==
    /\ pc = "exited"
    /\ pc' = "idle"
    /\ outcome' = "none"
    /\ UNCHANGED <<retryVars, fetchVars, lockVars, remoteVars, localVars, configVars,
                   tempVars, mode, fallback,
                   done, pre, tainted, clean, pushedNow, echo>>

\* ------------------------------------------- what happens outside the run
Disturbed ==
    /\ tainted' = (pc # "idle")
    /\ clean' = FALSE

\* The changes third parties and the user make are those a specification
\* lets happen: each bounds the history ids they are made at.
\* the remote store changes between two calls the run makes to it; a change
\* that falls between two local steps is the same as one made after them, one
\* made before the run's first remote call the same as one made before the run
RemoteWindow ==
    pc \in {"idle", "incr_diff", "full_enum", "full_tags", "full_end",
            "full_catchup", "merge_push", "merge_reread", "fetch_content"}

\* a third party adds a message to the remote store
RemoteNew(i, t) ==
    /\ RemoteWindow
    /\ r_born[i] = 0
    /\ r_tags' = DictUpdate(r_tags, [j \in {i} |-> t])
    /\ r_born' = [r_born EXCEPT ![i] = hid + 1]
    /\ r_mod' = [r_mod EXCEPT ![i] = hid + 1]
    /\ hid' = hid + 1
    /\ Disturbed
    /\ pushedNow' = {}
    /\ echo' = {}
    /\ UNCHANGED <<retryVars, fetchVars, lockVars, histFloor, localVars, configVars, pc,
                   tempVars, mode, fallback,
                   done, pre, outcome>>

\* a third party changes the tags of a remote message
RemoteTag(i, t) ==
    /\ RemoteWindow
    /\ i \in DOMAIN r_tags
    /\ r_tags[i] # t
    /\ r_tags' = [r_tags EXCEPT ![i] = t]
    /\ r_mod' = [r_mod EXCEPT ![i] = hid + 1]
    /\ hid' = hid + 1
    /\ Disturbed
    /\ pushedNow' = {}
    /\ echo' = {}
    /\ UNCHANGED <<retryVars, fetchVars, lockVars, r_born, histFloor, localVars,
                   configVars, pc, tempVars, mode,
                   fallback, done, pre, outcome>>

\* a third party deletes a remote message
RemoteDelete(i) ==
    /\ RemoteWindow
    /\ i \in DOMAIN r_tags
    /\ r_tags' = DictDrop(r_tags, {i})
    /\ r_mod' = [r_mod EXCEPT ![i] = hid + 1]
    /\ hid' = hid + 1
    /\ Disturbed
    /\ pushedNow' = {}
    /\ echo' = {}
    /\ UNCHANGED <<retryVars, fetchVars, lockVars, r_born, histFloor, localVars,
                   configVars, pc, tempVars, mode,
                   fallback, done, pre, outcome>>

\* the remote store forgets its oldest history
ExpireHistory ==
    /\ pc = "idle"
    /\ histFloor < hid
    /\ histFloor' = hid
    /\ UNCHANGED <<retryVars, fetchVars, lockVars, r_tags, r_born, r_mod, hid, localVars,
                   configVars, pc,
                   tempVars, ghostVars>>

\* the user changes the tags of a local message; as for third parties,
\* MaxHist bounds the changes considered (a run pushes each of them)
LocalTag(i, t) ==
    /\ pc = "idle"
    /\ hid < MaxHist
    /\ i \in DOMAIN l_tags
    /\ l_tags[i] # t
    /\ l_tags' = [l_tags EXCEPT ![i] = t]
    /\ l_dirty' = l_dirty \cup {i}
    /\ Disturbed
    /\ UNCHANGED <<retryVars, fetchVars, lockVars, remoteVars, l_fresh, configVars, pc,
                   tempVars, mode, fallback,
                   done, pre, outcome, pushedNow, echo>>

\* the user creates a local-only message
LocalCompose(m) ==
    /\ pc = "idle"
    /\ m \notin l_fresh
    /\ l_fresh' = l_fresh \cup {m}
    /\ Disturbed
    /\ UNCHANGED <<retryVars, fetchVars, lockVars, remoteVars, l_tags, l_dirty,
                   configVars, pc, tempVars, mode,
                   fallback, done, pre, outcome, pushedNow, echo>>

Next ==
    \/ Start
    \/ Setup
    \/ ChangesIncremental_nocursor
    \/ ChangesIncremental_cursor
    \/ ChangesIncremental_diff
    \/ \E cause \in {"tooold", "other"} : ChangesIncremental_error(cause)
    \/ ChangesIncremental_local
    \/ ChangesFull_local
    \/ ChangesFull_start
    \/ ChangesFull_enum
    \/ ChangesFull_deletions
    \/ ChangesFull_tags
    \/ ChangesFull_end
    \/ ChangesFull_advanced
    \/ ChangesFull_catchup
    \/ Merge_resolve
    \/ Merge_push
    \/ Merge_reread
    \/ Merge_apply
    \/ Fetch_begin
    \/ \E i \in Ids : Fetch_callback(i)
    \/ Fetch_end
    \/ Delete
    \/ Persist_cursor
    \/ Persist_rev
    \/ Run_return
    \/ \E kind \in {"gapi", "interrupt"} : Abort(kind)
    \/ Exit
    \/ \E i \in Ids, t \in TagSets : hid < MaxHist /\ RemoteNew(i, t)
    \/ \E i \in Ids, t \in TagSets : hid < MaxHist /\ RemoteTag(i, t)
    \/ \E i \in Ids : hid < MaxHist /\ RemoteDelete(i)
    \/ ExpireHistory
    \/ \E i \in Ids, t \in TagSets : LocalTag(i, t)
    \/ \E m \in LocalOnly : LocalCompose(m)

Spec == Init /\ [][Next]_vars


\* ------------------------- full reconciliation while the mailbox changes
MaxWindow == 3
MaxWindowIds == 2

WindowIds == 1..MaxWindowIds

\* Any remote mailbox and any local mailbox over WindowIds, of messages
\* without tags (the tags come with the changes of third parties), no cursor
\* persisted: every run goes through changes_full, to its return or to an
\* exception, while third parties make up to MaxWindow changes between any
\* two of its remote calls. The remote store gives the messages their ids: a
\* message the local store alone holds was on the remote store before.
InitCatchUp ==
    /\ r_tags \in Mailboxes(WindowIds, {{}})
    /\ l_tags \in Mailboxes(WindowIds, {{}})
    /\ r_born = [i \in WindowIds |->
                   IF i \in (DOMAIN r_tags) \cup (DOMAIN l_tags) THEN 1 ELSE 0]
    /\ r_mod = r_born
    /\ hid = 1
    /\ histFloor = 1
    /\ l_dirty = {}
    /\ l_fresh = {}
    /\ last_history_id = NoCursor
    /\ local_wins = FALSE
    /\ push_local_tags = FALSE
    /\ index_batch_size = 1
    /\ InitRun

NextCatchUp ==
    \/ Start
    \/ Setup
    \/ ChangesIncremental_nocursor
    \/ ChangesFull_local
    \/ ChangesFull_start
    \/ ChangesFull_enum
    \/ ChangesFull_deletions
    \/ ChangesFull_tags
    \/ ChangesFull_end
    \/ ChangesFull_advanced
    \/ ChangesFull_catchup
    \/ \E kind \in {"gapi", "interrupt"} : Abort(kind)
    \/ Exit
    \/ \E i \in WindowIds, t \in TagSets : hid <= MaxWindow /\ RemoteNew(i, t)
    \/ \E i \in WindowIds, t \in TagSets : hid <= MaxWindow /\ RemoteTag(i, t)
    \/ \E i \in WindowIds : hid <= MaxWindow /\ RemoteDelete(i)

SpecCatchUp == InitCatchUp /\ [][NextCatchUp]_vars


\* ------------------------------------------- full reconciliation alone
\* Any remote mailbox R and any local mailbox L over FullIds, no cursor
\* persisted: the run goes through changes_full and the model stops there.
InitFull ==
    /\ r_tags \in Mailboxes(FullIds, TagSets)
    /\ r_born = [i \in FullIds |-> IF i \in DOMAIN r_tags THEN 1 ELSE 0]
    /\ r_mod = r_born
    /\ hid = 1
    /\ histFloor = 1
    /\ l_tags \in Mailboxes(FullIds, TagSets)
    /\ l_dirty = {}
    /\ l_fresh = {}
    /\ last_history_id = NoCursor
    /\ local_wins \in BOOLEAN
    /\ push_local_tags \in BOOLEAN
    /\ index_batch_size = 1
    /\ InitRun

NextFull ==
    \/ Start
    \/ Setup
    \/ ChangesIncremental_nocursor
    \/ ChangesFull_local
    \/ ChangesFull_start
    \/ ChangesFull_enum
    \/ ChangesFull_deletions
    \/ ChangesFull_tags
    \/ ChangesFull_end

SpecFull == InitFull /\ [][NextFull]_vars

\* ------------------------------------------------ conflict resolution alone
\* Every message of FullIds is on both sides; since the persisted cursor (1)
\* any of them may have been retagged remotely (r_mod = 2) and any of them may
\* have been retagged locally (l_dirty): the incremental ChangeSet has any
\* l_updated and any r_updated. The model stops after the resolution.
InitMerge ==
    /\ r_tags = [i \in FullIds |-> {"x"}]
    /\ r_born = [i \in FullIds |-> 1]
    /\ r_mod \in [FullIds -> {1, 2}]
    /\ hid = 2
    /\ histFloor = 1
    /\ l_tags \in [FullIds -> TagSets]
    /\ l_dirty \in SUBSET FullIds
    /\ l_fresh = {}
    /\ last_history_id = 1
    /\ local_wins \in BOOLEAN
    /\ push_local_tags \in BOOLEAN
    /\ index_batch_size = 1
    /\ InitRun

NextMerge ==
    \/ Start
    \/ Setup
    \/ ChangesIncremental_cursor
    \/ ChangesIncremental_diff
    \/ ChangesIncremental_local
    \/ Merge_resolve

SpecMerge == InitMerge /\ [][NextMerge]_vars


\* ------------------------------------------------- one whole run, undisturbed
\* A first run (no cursor) over any remote mailbox and any local mailbox, any
\* part of which was retagged locally: the ChangeSet of changes_full has any
\* l_updated, r_updated, r_new and r_deleted. Nothing else touches the stores
\* and the run is not aborted; the model stops when run returns.
InitOrder ==
    /\ r_tags \in Mailboxes(FullIds, {{"x"}})
    /\ r_born = [i \in FullIds |-> IF i \in DOMAIN r_tags THEN 1 ELSE 0]
    /\ r_mod = r_born
    /\ hid = 1
    /\ histFloor = 1
    /\ l_tags \in Mailboxes(FullIds, TagSets)
    /\ l_dirty \in SUBSET DOMAIN l_tags
    /\ l_fresh = {}
    /\ last_history_id = NoCursor
    /\ local_wins \in BOOLEAN
    /\ push_local_tags \in BOOLEAN
    /\ index_batch_size = 1
    /\ InitRun

NextOrder ==
    \/ Start
    \/ Setup
    \/ ChangesIncremental_nocursor
    \/ ChangesFull_local
    \/ ChangesFull_start
    \/ ChangesFull_enum
    \/ ChangesFull_deletions
    \/ ChangesFull_tags
    \/ ChangesFull_end
    \/ Merge_resolve
    \/ Merge_push
    \/ Merge_reread
    \/ Merge_apply
    \/ Fetch_begin
    \/ \E i \in FullIds : Fetch_callback(i)
    \/ Fetch_end
    \/ Delete
    \/ Persist_cursor
    \/ Persist_rev
    \/ Run_return

SpecOrder == InitOrder /\ [][NextOrder]_vars

\* ------------------------------------- a run aborted and retried, compared
\* From each situation of InitOrder run is executed three times: once to its
\* end (trial "none"); then, from the same situation again, up to an
\* exception that leaves it before the cursor is persisted (trial
\* "interrupted"); then once more, to its end ("retry").

\* message sets and tag sets of both stores and the persisted cursor
FinalOf(P) ==
    [r_tags |-> P.r_tags, l_tags |-> P.l_tags,
     last_history_id |-> P.last_history_id]

\* the uninterrupted run has returned: its result is kept and both stores and
\* the cursor are put back as they were before it
Retry_rewind ==
    /\ trial = "none"
    /\ pc = "exited"
    /\ outcome = "ok"
    /\ ref' = Persistent
    /\ trial' = "interrupted"
    /\ r_tags' = snap.r_tags
    /\ r_born' = snap.r_born
    /\ r_mod' = snap.r_mod
    /\ hid' = snap.hid
    /\ l_tags' = snap.l_tags
    /\ l_dirty' = snap.l_dirty
    /\ l_fresh' = snap.l_fresh
    /\ last_history_id' = snap.last_history_id
    /\ pc' = "idle"
    /\ outcome' = "none"
    /\ clean' = FALSE
    /\ echo' = {}
    /\ UNCHANGED <<snap, fetchVars, lockVars, histFloor, local_wins,
                   push_local_tags, tempVars, mode, fallback, done, pre,
                   tainted, pushedNow>>

\* the second run is left by an exception before the cursor is persisted
Retry_abort(kind) ==
    /\ trial = "interrupted"
    /\ pc \notin {"persist_rev", "run_return"}
    /\ Abort(kind)

\* main has returned after the exception; run is about to be executed again
Retry_again ==
    /\ trial = "interrupted"
    /\ pc = "exited"
    /\ outcome \in {"gapi", "interrupt"}
    /\ trial' = "retry"
    /\ pc' = "idle"
    /\ outcome' = "none"
    /\ UNCHANGED <<snap, ref, fetchVars, lockVars, remoteVars, localVars,
                   configVars, tempVars, mode, fallback, done, pre, tainted,
                   clean, pushedNow, echo>>

NextRetry ==
    \/ Start
    \/ Setup
    \/ ChangesIncremental_nocursor
    \/ ChangesFull_local
    \/ ChangesFull_start
    \/ ChangesFull_enum
    \/ ChangesFull_deletions
    \/ ChangesFull_tags
    \/ ChangesFull_end
    \/ Merge_resolve
    \/ Merge_push
    \/ Merge_reread
    \/ Merge_apply
    \/ Fetch_begin
    \/ \E i \in FullIds : Fetch_callback(i)
    \/ Fetch_end
    \/ Delete
    \/ Persist_cursor
    \/ Persist_rev
    \/ Run_return
    \/ Retry_rewind
    \/ \E kind \in {"gapi", "interrupt"} : Retry_abort(kind)
    \/ Retry_again

SpecRetry == InitOrder /\ [][NextRetry]_vars

\* --------------------------------- incremental runs next to a third party
\* Every message of FullIds is on both sides with the same tags and a cursor
\* is persisted: every run is incremental. Between and during the runs the
\* user retags local messages and a third party retags remote ones; local
\* tags are pushed.
InitWindow ==
    /\ r_tags = [i \in FullIds |-> {}]
    /\ r_born = [i \in FullIds |-> 1]
    /\ r_mod = r_born
    /\ hid = 1
    /\ histFloor = 1
    /\ l_tags = r_tags
    /\ l_dirty = {}
    /\ l_fresh = {}
    /\ last_history_id = 1
    /\ local_wins \in BOOLEAN
    /\ push_local_tags = TRUE
    /\ index_batch_size = 1
    /\ InitRun

NextWindow ==
    \/ Start
    \/ Setup
    \/ ChangesIncremental_cursor
    \/ ChangesIncremental_diff
    \/ ChangesIncremental_local
    \/ Merge_resolve
    \/ Merge_push
    \/ Merge_reread
    \/ Merge_apply
    \/ Delete
    \/ Persist_cursor
    \/ Persist_rev
    \/ Run_return
    \/ Exit
    \/ \E i \in FullIds, t \in TagSets : hid < MaxHist /\ RemoteTag(i, t)
    \/ \E i \in FullIds, t \in TagSets : LocalTag(i, t)

SpecWindow == InitWindow /\ [][NextWindow]_vars

\* ------------------------------------------------- fetch alone
\* any remote mailbox over FetchIds, an empty local store, any batch size: the
\* first run finds every remote message new; the model stops when fetch returns
InitFetch ==
    /\ r_tags \in Mailboxes(FetchIds, {{}})
    /\ r_born = [i \in FetchIds |-> IF i \in DOMAIN r_tags THEN 1 ELSE 0]
    /\ r_mod = r_born
    /\ hid = 1
    /\ histFloor = 1
    /\ l_tags = EmptyMap
    /\ l_dirty = {}
    /\ l_fresh = {}
    /\ last_history_id = NoCursor
    /\ local_wins = FALSE
    /\ push_local_tags = FALSE
    /\ index_batch_size \in BatchSizes
    /\ InitRun

NextFetch ==
    \/ Start
    \/ Setup
    \/ ChangesIncremental_nocursor
    \/ ChangesFull_local
    \/ ChangesFull_start
    \/ ChangesFull_enum
    \/ ChangesFull_deletions
    \/ ChangesFull_end
    \/ Fetch_begin
    \/ \E i \in FetchIds : Fetch_callback(i)
    \/ Fetch_end

SpecFetch == InitFetch /\ [][NextFetch]_vars

\* ------------------------------------------------------ PIDFile (util.py)
runVars == <<remoteVars, localVars, configVars, pc, tempVars, ghostVars,
            fetchVars, retryVars>>

\* os.kill(pid, 0) succeeds: a process with that pid exists; it is in main, or
\* it has left main or was killed and is not reaped yet
Alive(q) == q \in Procs /\ lk_pc[q] \notin {"new", "gone"}

\* the invocation is executing main
InMain(p) ==
    lk_pc[p] \in {"create", "mkdir", "read", "reading", "probe", "write",
                  "opened", "written", "run", "exit", "closing"}

\* what the file an invocation has open holds
Content(p) == IF lk_fd[p] = OnDisk THEN pidfile ELSE lk_lost[lk_fd[p]]

\* main is invoked and reaches "with PIDFile(sync.config)": create is entered
Invoke(p) ==
    /\ lk_pc[p] = "new"
    /\ lk_pc' = [lk_pc EXCEPT ![p] = "create"]
    /\ UNCHANGED <<pidfile, lk_other, lk_exit, lk_fd, lk_lost, lk_dir, runVars>>

\* create: "if not os.path.isdir(dirname)"
PIDFile_create_isdir(p) ==
    /\ lk_pc[p] = "create"
    /\ lk_pc' = [lk_pc EXCEPT ![p] = IF lk_dir THEN "read" ELSE "mkdir"]
    /\ UNCHANGED <<pidfile, lk_other, lk_exit, lk_fd, lk_lost, lk_dir, runVars>>

\* create: os.makedirs(dirname); FileExistsError is raised out of create and
\* out of main when another invocation has made the directory since the test
PIDFile_create_makedirs(p) ==
    /\ lk_pc[p] = "mkdir"
    /\ IF lk_dir
       THEN /\ lk_pc' = [lk_pc EXCEPT ![p] = "raised"]
            /\ UNCHANGED lk_dir
       ELSE /\ lk_dir' = TRUE
            /\ lk_pc' = [lk_pc EXCEPT ![p] = "read"]
    /\ UNCHANGED <<pidfile, lk_other, lk_exit, lk_fd, lk_lost, runVars>>

\* main is invoked with --defconfig: the default configuration is printed and
\* main returns 0 before any PIDFile is made
Main_defconfig(p) ==
    /\ lk_pc[p] = "new"
    /\ lk_pc' = [lk_pc EXCEPT ![p] = "defconfig"]
    /\ UNCHANGED <<pidfile, lk_other, lk_exit, lk_fd, lk_lost, lk_dir, runVars>>

\* create: open(self.filepath, 'r'); it fails when there is no file and
\* other_pid = None
PIDFile_create_open_r(p) ==
    /\ lk_pc[p] = "read"
    /\ IF pidfile = NoFile
       THEN /\ lk_other' = [lk_other EXCEPT ![p] = NoPid]
            /\ lk_pc' = [lk_pc EXCEPT ![p] = "write"]
            /\ UNCHANGED lk_fd
       ELSE /\ lk_fd' = [lk_fd EXCEPT ![p] = OnDisk]
            /\ lk_pc' = [lk_pc EXCEPT ![p] = "reading"]
            /\ UNCHANGED lk_other
    /\ UNCHANGED <<pidfile, lk_exit, lk_lost, lk_dir, runVars>>

\* create: other_pid = int(f.readline().strip()) and the file is closed;
\* int('') raises when the file is empty: other_pid = None
PIDFile_create_read(p) ==
    /\ lk_pc[p] = "reading"
    /\ IF Content(p) = EmptyFile
       THEN /\ lk_other' = [lk_other EXCEPT ![p] = NoPid]
            /\ lk_pc' = [lk_pc EXCEPT ![p] = "write"]
       ELSE /\ lk_other' = [lk_other EXCEPT ![p] = Content(p)]
            /\ lk_pc' = [lk_pc EXCEPT ![p] = "probe"]
    /\ lk_fd' = [lk_fd EXCEPT ![p] = NoFd]
    /\ UNCHANGED <<pidfile, lk_exit, lk_lost, lk_dir, runVars>>

\* create: os.kill(other_pid, 0); AlreadyRunning is raised when it succeeds
\* and main returns 0, otherwise other_pid = None
PIDFile_create_probe(p) ==
    /\ lk_pc[p] = "probe"
    /\ IF Alive(lk_other[p])
       THEN /\ lk_pc' = [lk_pc EXCEPT ![p] = "refused"]
            /\ UNCHANGED lk_other
       ELSE /\ lk_other' = [lk_other EXCEPT ![p] = NoPid]
            /\ lk_pc' = [lk_pc EXCEPT ![p] = "write"]
    /\ UNCHANGED <<pidfile, lk_exit, lk_fd, lk_lost, lk_dir, runVars>>

\* create: KeyboardInterrupt inside the try block (open, readline, os.kill);
\* the bare "except:" catches it: other_pid = None
PIDFile_create_except(p) ==
    /\ lk_pc[p] \in {"read", "reading", "probe"}
    /\ lk_other' = [lk_other EXCEPT ![p] = NoPid]
    /\ lk_pc' = [lk_pc EXCEPT ![p] = "write"]
    /\ lk_fd' = [lk_fd EXCEPT ![p] = NoFd]
    /\ UNCHANGED <<pidfile, lk_exit, lk_lost, lk_dir, runVars>>

\* create: open(self.filepath, 'w') truncates the file, or creates it
PIDFile_create_open(p) ==
    /\ lk_pc[p] = "write"
    /\ pidfile' = EmptyFile
    /\ lk_fd' = [lk_fd EXCEPT ![p] = OnDisk]
    /\ lk_pc' = [lk_pc EXCEPT ![p] = "opened"]
    /\ UNCHANGED <<lk_other, lk_exit, lk_lost, lk_dir, runVars>>

\* create: f.write('%d\n' % os.getpid()) and the file is closed; the pid goes
\* to the file that was opened, which another invocation may have unlinked
\* since
PIDFile_create_write(p) ==
    /\ lk_pc[p] = "opened"
    /\ IF lk_fd[p] = OnDisk
       THEN /\ pidfile' = p
            /\ UNCHANGED lk_lost
       ELSE /\ lk_lost' = [lk_lost EXCEPT ![lk_fd[p]] = p]
            /\ UNCHANGED pidfile
    /\ lk_fd' = [lk_fd EXCEPT ![p] = NoFd]
    /\ lk_pc' = [lk_pc EXCEPT ![p] = "written"]
    /\ UNCHANGED <<lk_other, lk_exit, lk_dir, runVars>>

\* create returns, __enter__ returns self: the body of the with block of main
\* is entered
PIDFile_enter(p) ==
    /\ lk_pc[p] = "written"
    /\ lk_pc' = [lk_pc EXCEPT ![p] = "run"]
    /\ UNCHANGED <<pidfile, lk_other, lk_exit, lk_fd, lk_lost, lk_dir, runVars>>

\* sync.run() is left, normally or by an exception: __exit__ is called
PIDFile_exit(p) ==
    /\ lk_pc[p] = "run"
    /\ lk_pc' = [lk_pc EXCEPT ![p] = "exit"]
    /\ UNCHANGED <<pidfile, lk_other, lk_exit, lk_fd, lk_lost, lk_dir, runVars>>

\* close: "if os.path.isfile(self.filepath)"
PIDFile_close(p) ==
    /\ lk_pc[p] = "exit"
    /\ lk_pc' = [lk_pc EXCEPT ![p] = IF pidfile # NoFile THEN "closing" ELSE "done"]
    /\ UNCHANGED <<pidfile, lk_other, lk_exit, lk_fd, lk_lost, lk_dir, runVars>>

\* close: os.unlink(self.filepath); FileNotFoundError is raised out of
\* __exit__ when the file is gone since the test. The invocations that have
\* the file open keep it, unlinked
PIDFile_close_unlink(p) ==
    /\ lk_pc[p] = "closing"
    /\ IF pidfile # NoFile
       THEN /\ pidfile' = NoFile
            /\ lk_lost' = [lk_lost EXCEPT ![p] = pidfile]
            /\ lk_fd' = [q \in Procs |-> IF lk_fd[q] = OnDisk THEN p ELSE lk_fd[q]]
            /\ lk_pc' = [lk_pc EXCEPT ![p] = "done"]
       ELSE /\ lk_pc' = [lk_pc EXCEPT ![p] = "raised"]
            /\ UNCHANGED <<pidfile, lk_fd, lk_lost>>
    /\ UNCHANGED <<lk_other, lk_exit, lk_dir, runVars>>

\* KeyboardInterrupt in main outside sync.run(), outside the try block of
\* create and outside the handlers of main: before the try block is entered,
\* after it (AlreadyRunning about to be raised or raised, the file about to be
\* written or written, __enter__ not left: __exit__ is not called then), or
\* in __exit__ and close, before or after the file was unlinked. It
\* propagates to the handler of main, which returns 2; the PID file stays as
\* it is at that moment
PIDFile_interrupt(p) ==
    /\ lk_pc[p] \in {"create", "mkdir", "read", "refused", "write", "opened",
                     "written", "exit", "closing", "done"}
    /\ lk_exit[p] = NoExit
    /\ lk_pc' = [lk_pc EXCEPT ![p] = "interrupted"]
    /\ lk_fd' = [lk_fd EXCEPT ![p] = NoFd]
    /\ UNCHANGED <<pidfile, lk_other, lk_exit, lk_lost, lk_dir, runVars>>

\* the process is killed: nothing of it runs any more, the file stays, and
\* the process exists until it is reaped
Die(p) ==
    /\ InMain(p)
    /\ lk_pc' = [lk_pc EXCEPT ![p] = "dead"]
    /\ lk_fd' = [lk_fd EXCEPT ![p] = NoFd]
    /\ UNCHANGED <<pidfile, lk_other, lk_exit, lk_lost, lk_dir, runVars>>

\* a process that has left main or was killed is reaped: its pid is free
Reaped(p) ==
    /\ lk_pc[p] \in {"dead", "done", "refused", "raised", "interrupted",
                     "defconfig"}
    /\ lk_pc' = [lk_pc EXCEPT ![p] = "gone"]
    /\ UNCHANGED <<pidfile, lk_other, lk_exit, lk_fd, lk_lost, lk_dir, runVars>>

\* no mailbox, no policy: only the invocations and the PID file move
InitLock ==
    /\ r_tags = EmptyMap
    /\ r_born = [i \in Ids |-> 0]
    /\ r_mod = r_born
    /\ hid = 1
    /\ histFloor = 1
    /\ l_tags = EmptyMap
    /\ l_dirty = {}
    /\ l_fresh = {}
    /\ last_history_id = NoCursor
    /\ local_wins = FALSE
    /\ push_local_tags = FALSE
    /\ index_batch_size = 1
    /\ InitProgram
    /\ lk_dir \in BOOLEAN

NextLock ==
    \/ \E p \in Procs : Invoke(p)
    \/ \E p \in Procs : Main_defconfig(p)
    \/ \E p \in Procs : PIDFile_create_isdir(p)
    \/ \E p \in Procs : PIDFile_create_makedirs(p)
    \/ \E p \in Procs : PIDFile_create_open_r(p)
    \/ \E p \in Procs : PIDFile_create_read(p)
    \/ \E p \in Procs : PIDFile_create_probe(p)
    \/ \E p \in Procs : PIDFile_create_except(p)
    \/ \E p \in Procs : PIDFile_create_open(p)
    \/ \E p \in Procs : PIDFile_create_write(p)
    \/ \E p \in Procs : PIDFile_enter(p)
    \/ \E p \in Procs : PIDFile_exit(p)
    \/ \E p \in Procs : PIDFile_close(p)
    \/ \E p \in Procs : PIDFile_close_unlink(p)
    \/ \E p \in Procs : PIDFile_interrupt(p)
    \/ \E p \in Procs : Die(p)
    \/ \E p \in Procs : Reaped(p)

SpecLock == InitLock /\ [][NextLock]_vars

\* ------------------------------------------------------------ main, whole
\* main: the value returned after sync.run() ("ok"), from the handler of
\* PIDFile.AlreadyRunning ("already"), of EOFError and KeyboardInterrupt
\* ("interrupt") and of GAPIError ("gapi")
main_return(o) ==
    CASE o = "defconfig" -> 0
      [] o = "ok" -> 0
      [] o = "already" -> 0
      [] o = "interrupt" -> 2
      [] o = "gapi" -> 1

\* the invocation of main that is followed from its start to its return
Observed == CHOOSE p \in Procs : \A q \in Procs : p <= q

\* main: sync.run() is called inside "with PIDFile(sync.config)"
Main_run ==
    /\ lk_pc[Observed] = "run"
    /\ Start

\* main: run has returned or raised; PIDFile.__exit__ is called
Main_exit ==
    /\ pc = "exited"
    /\ PIDFile_exit(Observed)

\* main returns: 0 at line 314 (--defconfig), 0 after the with block, 0 from
\* the handler of AlreadyRunning, 2 from the handler of KeyboardInterrupt and
\* EOFError, 1 from the handler of GAPIError. An exception raised by __exit__
\* replaces the one run raised; the FileExistsError of create and the
\* FileNotFoundError of close are caught by none of the handlers, and neither
\* is a KeyboardInterrupt raised inside a handler (in LOG.info of the handler
\* of AlreadyRunning, in LOG.error of the handler of GAPIError): main raises
Main_return ==
    /\ lk_pc[Observed] \in {"defconfig", "done", "refused", "raised", "interrupted"}
    /\ lk_exit[Observed] = NoExit
    /\ \E in_handler \in BOOLEAN :
          /\ in_handler => \/ lk_pc[Observed] = "refused"
                           \/ lk_pc[Observed] = "done" /\ outcome = "gapi"
          /\ lk_exit' = [lk_exit EXCEPT ![Observed] =
                CASE in_handler -> MainRaised
                  [] lk_pc[Observed] = "raised" -> MainRaised
                  [] lk_pc[Observed] = "interrupted" -> main_return("interrupt")
                  [] lk_pc[Observed] = "defconfig" -> main_return("defconfig")
                  [] lk_pc[Observed] = "refused" -> main_return("already")
                  [] lk_pc[Observed] = "done" -> main_return(outcome)]
    /\ UNCHANGED <<pidfile, lk_pc, lk_other, lk_fd, lk_lost, lk_dir, runVars>>

\* The observed invocation is about to start; every other invocation is in
\* run, has been killed, with its process still there or reaped, or has
\* returned, and the PID file, if there is one, holds the pid of one that did
\* not return. The mailbox is as in Init.
InitMain ==
    /\ r_tags \in Mailboxes(Ids, {{}})
    /\ r_born = [i \in Ids |-> IF i \in DOMAIN r_tags THEN 1 ELSE 0]
    /\ r_mod = r_born
    /\ hid = 1
    /\ histFloor = 1
    /\ l_tags = EmptyMap
    /\ l_dirty = {}
    /\ l_fresh = {}
    /\ last_history_id = NoCursor
    /\ local_wins \in BOOLEAN
    /\ push_local_tags \in BOOLEAN
    /\ index_batch_size = 1
    /\ pc = "idle"
    /\ changes = NoChanges
    /\ all_local = EmptyMap
    /\ r_all = {}
    /\ local_ids = {}
    /\ history_id_start = NoCursor
    /\ mode = "none"
    /\ fallback = "none"
    /\ done = << >>
    /\ pre = NoChanges
    /\ outcome = "none"
    /\ tainted = FALSE
    /\ clean = FALSE
    /\ pushedNow = {}
    /\ echo = {}
    /\ f_todo = {}
    /\ batch = EmptyMap
    /\ stored = {}
    /\ indexed = << >>
    /\ trial = "none"
    /\ snap = Persistent
    /\ ref = Persistent
    /\ lk_pc \in [Procs -> {"new", "run", "dead", "gone", "done"}]
    /\ \A p \in Procs : lk_pc[p] = "new" <=> p = Observed
    /\ pidfile \in {NoFile} \cup
                    {q \in Procs : lk_pc[q] \in {"run", "dead", "gone"}}
    /\ lk_other = [p \in Procs |-> NoPid]
    /\ lk_exit = [p \in Procs |->
                    IF lk_pc[p] = "done" THEN main_return("ok") ELSE NoExit]
    /\ lk_fd = [p \in Procs |-> NoFd]
    /\ lk_lost = [p \in Procs |-> NoFile]
    /\ lk_dir \in BOOLEAN
    /\ (pidfile # NoFile \/ \E q \in Procs : lk_pc[q] \in {"run", "done"}) => lk_dir

NextMain ==
    \/ Invoke(Observed)
    \/ Main_defconfig(Observed)
    \/ PIDFile_create_isdir(Observed)
    \/ PIDFile_create_makedirs(Observed)
    \/ PIDFile_create_open_r(Observed)
    \/ PIDFile_create_read(Observed)
    \/ PIDFile_create_probe(Observed)
    \/ PIDFile_create_except(Observed)
    \/ PIDFile_create_open(Observed)
    \/ PIDFile_create_write(Observed)
    \/ PIDFile_enter(Observed)
    \/ Main_run
    \/ Setup
    \/ ChangesIncremental_nocursor
    \/ ChangesFull_local
    \/ ChangesFull_start
    \/ ChangesFull_enum
    \/ ChangesFull_deletions
    \/ ChangesFull_end
    \/ Fetch_begin
    \/ \E i \in Ids : Fetch_callback(i)
    \/ Fetch_end
    \/ Delete
    \/ Persist_cursor
    \/ Persist_rev
    \/ Run_return
    \/ \E kind \in {"gapi", "interrupt"} : Abort(kind)
    \/ Main_exit
    \/ PIDFile_close(Observed)
    \/ PIDFile_close_unlink(Observed)
    \/ PIDFile_interrupt(Observed)
    \/ Main_return
    \/ \E q \in Procs \ {Observed} : PIDFile_exit(q)
    \/ \E q \in Procs \ {Observed} : PIDFile_close(q)
    \/ \E q \in Procs \ {Observed} : PIDFile_close_unlink(q)
    \/ \E q \in Procs \ {Observed} : PIDFile_interrupt(q)
    \/ \E q \in Procs \ {Observed} : Die(q)
    \/ \E q \in Procs \ {Observed} : Reaped(q)

SpecMain == InitMain /\ [][NextMain]_vars

\* ------------------------------------------- main, and the invocation after
\* the invocation of main that starts after the observed one has returned
Later ==
    CHOOSE p \in Procs \ {Observed} : \A q \in Procs \ {Observed} : p <= q

\* the observed main has returned its exit code: nothing of it runs any more
Main_returned ==
    /\ lk_exit[Observed] # NoExit
    /\ lk_pc[Later] = "new"
    /\ Exit

\* main is invoked again, with the same configuration and so the same file
Later_invoke ==
    /\ lk_exit[Observed] # NoExit
    /\ pc = "idle"
    /\ Invoke(Later)

\* main: the later invocation has the PID file and calls sync.run()
Later_run ==
    /\ lk_pc[Later] = "run"
    /\ Start

\* As InitMain, with two invocations yet to start: the observed one and the
\* later one. Every other invocation is in run, has been killed, with its
\* process still there or reaped, or has returned, and the PID file, if there
\* is one, holds the pid of one that did not return.
InitRelease ==
    /\ r_tags \in Mailboxes(Ids, {{}})
    /\ r_born = [i \in Ids |-> IF i \in DOMAIN r_tags THEN 1 ELSE 0]
    /\ r_mod = r_born
    /\ hid = 1
    /\ histFloor = 1
    /\ l_tags = EmptyMap
    /\ l_dirty = {}
    /\ l_fresh = {}
    /\ last_history_id = NoCursor
    /\ local_wins \in BOOLEAN
    /\ push_local_tags \in BOOLEAN
    /\ index_batch_size = 1
    /\ pc = "idle"
    /\ changes = NoChanges
    /\ all_local = EmptyMap
    /\ r_all = {}
    /\ local_ids = {}
    /\ history_id_start = NoCursor
    /\ mode = "none"
    /\ fallback = "none"
    /\ done = << >>
    /\ pre = NoChanges
    /\ outcome = "none"
    /\ tainted = FALSE
    /\ clean = FALSE
    /\ pushedNow = {}
    /\ echo = {}
    /\ f_todo = {}
    /\ batch = EmptyMap
    /\ stored = {}
    /\ indexed = << >>
    /\ trial = "none"
    /\ snap = Persistent
    /\ ref = Persistent
    /\ lk_pc \in [Procs -> {"new", "run", "dead", "gone", "done"}]
    /\ \A p \in Procs : lk_pc[p] = "new" <=> p \in {Observed, Later}
    /\ pidfile \in {NoFile} \cup
                    {q \in Procs : lk_pc[q] \in {"run", "dead", "gone"}}
    /\ lk_other = [p \in Procs |-> NoPid]
    /\ lk_exit = [p \in Procs |->
                    IF lk_pc[p] = "done" THEN main_return("ok") ELSE NoExit]
    /\ lk_fd = [p \in Procs |-> NoFd]
    /\ lk_lost = [p \in Procs |-> NoFile]
    /\ lk_dir \in BOOLEAN
    /\ (pidfile # NoFile \/ \E q \in Procs : lk_pc[q] \in {"run", "done"}) => lk_dir

\* the observed invocation from its start to its return, after which its
\* process is reaped sooner or later, then the later one up to its entry into
\* run; the other invocations close, are killed or are reaped
NextRelease ==
    \/ Invoke(Observed)
    \/ Main_defconfig(Observed)
    \/ \E p \in {Observed, Later} : PIDFile_create_isdir(p)
    \/ \E p \in {Observed, Later} : PIDFile_create_makedirs(p)
    \/ \E p \in {Observed, Later} : PIDFile_create_open_r(p)
    \/ \E p \in {Observed, Later} : PIDFile_create_read(p)
    \/ \E p \in {Observed, Later} : PIDFile_create_probe(p)
    \/ \E p \in {Observed, Later} : PIDFile_create_except(p)
    \/ \E p \in {Observed, Later} : PIDFile_create_open(p)
    \/ \E p \in {Observed, Later} : PIDFile_create_write(p)
    \/ \E p \in {Observed, Later} : PIDFile_enter(p)
    \/ Main_run
    \/ lk_pc[Later] = "new" /\ Setup
    \/ lk_pc[Later] = "new" /\ ChangesIncremental_nocursor
    \/ lk_pc[Later] = "new" /\ ChangesFull_local
    \/ lk_pc[Later] = "new" /\ ChangesFull_start
    \/ lk_pc[Later] = "new" /\ ChangesFull_enum
    \/ lk_pc[Later] = "new" /\ ChangesFull_deletions
    \/ lk_pc[Later] = "new" /\ ChangesFull_end
    \/ lk_pc[Later] = "new" /\ Fetch_begin
    \/ \E i \in Ids : lk_pc[Later] = "new" /\ Fetch_callback(i)
    \/ lk_pc[Later] = "new" /\ Fetch_end
    \/ lk_pc[Later] = "new" /\ Delete
    \/ lk_pc[Later] = "new" /\ Persist_cursor
    \/ lk_pc[Later] = "new" /\ Persist_rev
    \/ lk_pc[Later] = "new" /\ Run_return
    \/ \E kind \in {"gapi", "interrupt"} : lk_pc[Later] = "new" /\ Abort(kind)
    \/ Main_exit
    \/ PIDFile_close(Observed)
    \/ PIDFile_close_unlink(Observed)
    \/ \E p \in {Observed, Later} : PIDFile_interrupt(p)
    \/ Main_return
    \/ Main_returned
    \/ lk_exit[Observed] # NoExit /\ Reaped(Observed)
    \/ Later_invoke
    \/ Later_run
    \/ \E q \in Procs \ {Observed, Later} : PIDFile_exit(q)
    \/ \E q \in Procs \ {Observed, Later} : PIDFile_close(q)
    \/ \E q \in Procs \ {Observed, Later} : PIDFile_close_unlink(q)
    \/ \E q \in Procs \ {Observed, Later} : PIDFile_interrupt(q)
    \/ \E q \in Procs \ {Observed, Later} : Die(q)
    \/ \E q \in Procs \ {Observed, Later} : Reaped(q)

SpecRelease == InitRelease /\ [][NextRelease]_vars

\* ---------------------------------------------------------------- claims
InLog(step) == \E k \in 1..Len(done) : done[k] = step

Running == pc \notin {"idle", "exited"}

\* C1: the persisted cursor changes only in the step of run that follows the
\* deletion, after change detection and every step the ChangeSet called for
\* (push and cursor re-read, local tag apply, fetch, delete) have been done;
\* no other step, an exception leaving run included, changes it. When it
\* changes, the effects of those steps are there: no conflict is left, the
\* remote store has the pushed tags, the local store has the remote tags of
\* r_updated and the messages of r_new and none of r_deleted.
C1_CursorCommitsLast ==
    [][last_history_id' # last_history_id =>
         /\ pc = "persist_cursor"
         /\ last_history_id' = changes.history_id
         /\ InLog("changes")
         /\ InLog("delete")
         /\ (pre.l_updated # EmptyMap \/ pre.r_updated # EmptyMap) => InLog("resolve")
         /\ (push_local_tags /\ changes.l_updated # EmptyMap) =>
                InLog("push") /\ InLog("reread")
         /\ changes.r_updated # EmptyMap => InLog("apply")
         /\ changes.r_new # {} => InLog("fetch")
         /\ (DOMAIN changes.l_updated) \cap (DOMAIN changes.r_updated) = {}
         /\ push_local_tags =>
               /\ \A i \in pushedNow : r_tags[i] = changes.l_updated[i]
               /\ ~tainted =>
                     pushedNow = (DOMAIN changes.l_updated) \cap (DOMAIN r_tags)
         /\ \A i \in ((DOMAIN changes.r_updated) \cap (DOMAIN l_tags)) \ changes.r_new :
               l_tags[i] = changes.r_updated[i]
         /\ \A i \in changes.r_new :
               (i \in DOMAIN r_tags /\ i \notin changes.r_deleted) =>
                   i \in DOMAIN l_tags
         /\ changes.r_deleted \cap DOMAIN l_tags = {}]_vars

\* a run has fetched new messages, deleted, and has just persisted its cursor
C1_Witness ==
    /\ pc = "persist_rev"
    /\ InLog("fetch")
    /\ last_history_id = changes.history_id
    /\ last_history_id # NoCursor

\* C2: a run that follows a completed run, with no external change during
\* either or in between, detects an empty ChangeSet and pushes, applies,
\* fetches and deletes nothing.
C2_SecondRunIsEmpty ==
    (clean /\ Running) =>
        /\ ~InLog("resolve") /\ ~InLog("push") /\ ~InLog("apply") /\ ~InLog("fetch")
        /\ InLog("changes") =>
              /\ changes.l_updated = EmptyMap
              /\ changes.l_new = {}
              /\ changes.r_updated = EmptyMap
              /\ changes.r_new = {}
              /\ changes.r_deleted = {}

\* C3: when a run has completed with no external change during it, the
\* local store holds exactly the ids the remote store holds.
C3_MessageSetsConverge ==
    (pc = "exited" /\ outcome = "ok" /\ clean) => DOMAIN l_tags = DOMAIN r_tags

\* C4: after full reconciliation every id known locally and absent from the
\* remote enumeration is in r_deleted.
C4_LocalOnlyIdsAreDeleted ==
    (mode = "full" /\ InLog("changes")) =>
        ((DOMAIN all_local) \ r_all) \subseteq changes.r_deleted

\* C5: in a ChangeSet returned by change detection r_new, the keys of
\* r_updated and r_deleted are pairwise disjoint.
C5_RemoteSetsDisjoint ==
    InLog("changes") =>
        /\ changes.r_new \cap DOMAIN changes.r_updated = {}
        /\ changes.r_new \cap changes.r_deleted = {}
        /\ (DOMAIN changes.r_updated) \cap changes.r_deleted = {}

\* C6: after conflict resolution an id that was in both l_updated and
\* r_updated is in l_updated alone when local_wins and push_local_tags are
\* both set and in r_updated alone otherwise, with its tag set; the other
\* entries of both maps are as they were.
C6_ConflictsResolvedByPolicy ==
    InLog("resolve") =>
        LET conflicts == (DOMAIN pre.l_updated) \cap (DOMAIN pre.r_updated)
            keptL == IF local_wins /\ push_local_tags
                     THEN DOMAIN pre.l_updated
                     ELSE (DOMAIN pre.l_updated) \ conflicts
            keptR == IF local_wins /\ push_local_tags
                     THEN (DOMAIN pre.r_updated) \ conflicts
                     ELSE DOMAIN pre.r_updated
        IN  /\ DOMAIN changes.l_updated = keptL
            /\ DOMAIN changes.r_updated = keptR
            /\ \A i \in keptL : changes.l_updated[i] = pre.l_updated[i]
            /\ \A i \in keptR : changes.r_updated[i] = pre.r_updated[i]

\* a conflict resolved for the remote side because pushing is disabled, next
\* to entries that are on one side only
C6_Witness ==
    /\ InLog("resolve")
    /\ local_wins /\ ~push_local_tags
    /\ (DOMAIN pre.l_updated) \cap (DOMAIN pre.r_updated) # {}
    /\ (DOMAIN pre.l_updated) \ (DOMAIN pre.r_updated) # {}
    /\ (DOMAIN pre.r_updated) \ (DOMAIN pre.l_updated) # {}
    /\ (DOMAIN changes.l_updated) \cap (DOMAIN changes.r_updated) = {}

\* C8: a failure of the incremental diff query that is not "cursor too old"
\* makes the run end there: no full reconciliation, nothing persisted.
C8_OtherErrorsAbort ==
    fallback = "other" => (mode # "full" /\ ~InLog("cursor"))

\* C9: the incremental diff that a run takes from the cursor persisted by a
\* run that pushed tags does not report the pushed messages as r_updated,
\* when nothing else changed on the remote store since the push.
C9_NoSelfEcho ==
    (echo # {} /\ mode = "incremental" /\ pc = "incr_local") =>
        echo \cap DOMAIN changes.r_updated = {}

\* the run after a pushing run has just taken its incremental diff
C9_Witness ==
    /\ echo # {}
    /\ mode = "incremental"
    /\ pc = "incr_local"
    /\ \E i \in echo : r_mod[i] = last_history_id

\* C10: once changes_full has enumerated the remote ids, every enumerated id
\* that is unknown locally is in r_new, and the enumeration has put no
\* locally known id there.
C10_RemoteOnlyIdsAreNew ==
    (mode = "full" /\ pc \notin {"full_local", "full_start", "full_enum"}) =>
        /\ (r_all \ DOMAIN all_local) \subseteq changes.r_new
        /\ pc \in {"full_tags", "full_end"} =>
              changes.r_new \cap DOMAIN all_local = {}

\* full reconciliation has returned with ids on both sides and new ids
C10_Witness ==
    /\ mode = "full"
    /\ InLog("changes")
    /\ changes.r_new # {}
    /\ r_all \cap DOMAIN all_local # {}
    /\ (DOMAIN all_local) \ r_all # {}


\* C7: at no time are two live invocations both past PIDFile.create and in
\* sync.run().
C7_MutualExclusion ==
    Cardinality({p \in Procs : lk_pc[p] = "run"}) <= 1

\* C11: in full reconciliation the remote tags are requested exactly for the
\* ids that are on both sides; such an id is in r_updated, with its remote tag
\* set, iff that set differs from the local one, and an id whose tags are the
\* same on both sides is in none of r_new, r_updated and r_deleted.
C11_TagsFetchedForSharedIds ==
    (mode = "full" /\ pc \notin {"full_local", "full_start", "full_enum", "full_tags"}
       /\ InLog("changes")) =>
        LET shared == r_all \cap DOMAIN all_local
        IN  /\ local_ids = shared
            /\ \A i \in shared :
                  /\ i \in DOMAIN changes.r_updated <=> r_tags[i] # all_local[i]
                  /\ i \in DOMAIN changes.r_updated =>
                         changes.r_updated[i] = r_tags[i]
                  /\ r_tags[i] = all_local[i] =>
                         /\ i \notin changes.r_new
                         /\ i \notin changes.r_deleted

\* C12: with index_batch_size N and M messages delivered to fetch, mdir.index
\* is called ceil(M/N) times, each call covers at most N messages, every
\* stored message is covered by exactly one call once fetch has returned (by
\* at most one before), and a message is indexed only after it was stored.
C12_BatchedIndexing ==
    LET N == index_batch_size
        M == Cardinality(stored)
        calls(i) == {k \in 1..Len(indexed) : i \in indexed[k]}
    IN  /\ \A k \in 1..Len(indexed) :
              /\ Cardinality(indexed[k]) <= N
              /\ indexed[k] \subseteq stored
        /\ \A i \in stored : Cardinality(calls(i)) <= 1
        /\ (pc = "delete" /\ InLog("fetch")) =>
              /\ Len(indexed) = (M + N - 1) \div N
              /\ \A i \in stored : Cardinality(calls(i)) = 1

\* fetch has returned after more than one full batch and a partial last one
C12_Witness ==
    /\ pc = "delete"
    /\ InLog("fetch")
    /\ index_batch_size > 1
    /\ Cardinality(stored) > index_batch_size
    /\ Cardinality(stored) % index_batch_size # 0
    /\ Len(indexed) > 1

\* C13: a run that gets past its setup attempts the incremental detection
\* first; it enters full reconciliation exactly when no cursor is persisted
\* (no diff is requested then) or the remote store reports the cursor too
\* old, and not again once it has; the enumeration of all remote ids is done
\* in full reconciliation only.
C13_StrategySelection ==
    [][/\ (pc = "setup" /\ pc' \notin {"setup", "exited"}) => pc' = "incremental"
       /\ pc' = "full_local" =>
             /\ mode # "full"
             /\ \/ pc = "incremental" /\ last_history_id = NoCursor
                \/ pc = "incr_diff" /\ TooOld(last_history_id)
       /\ (pc = "incremental" /\ last_history_id = NoCursor /\ pc' # "exited") =>
             pc' \in {"incremental", "full_local"}
       /\ (pc = "incr_diff" /\ TooOld(last_history_id) /\ pc' # "exited") =>
             pc' \in {"incr_diff", "full_local"}
       /\ pc' \in {"full_start", "full_enum", "full_tags", "full_end",
                   "full_catchup"} => mode' = "full"
       /\ (mode = "incremental" /\ pc \notin {"incremental", "incr_diff"}) =>
             mode' # "full"]_vars

\* the steps of a run in the order run and merge take them
StepOrder ==
    <<"changes", "resolve", "push", "reread", "apply", "fetch", "delete", "cursor">>

Rank(step) == CHOOSE k \in 1..Len(StepOrder) : StepOrder[k] = step

\* C14: the steps a run executes come in the order conflict resolution, push
\* of local tags (with the cursor re-read), local apply of remote tags, fetch
\* of new messages, local deletion, persisting of the cursor and then of the
\* local marker; one step at a time and none twice.
C14_StepsInOrder ==
    /\ \A j, k \in 1..Len(done) : j < k => Rank(done[j]) < Rank(done[k])
    /\ pc = "merge_push" => done[Len(done)] = "resolve"
    /\ pc = "merge_reread" => done[Len(done)] = "push"
    /\ pc = "persist_cursor" => done[Len(done)] = "delete"
    /\ pc = "persist_rev" => done[Len(done)] = "cursor"

\* a run in which every step had something to do is about to persist the
\* local marker
C14_Witness ==
    /\ pc = "persist_rev"
    /\ done = StepOrder

\* C15: main returns 0 after a run that completed and 0, without having
\* executed any step of run, when PIDFile.create found a live instance; it
\* returns a non-zero code after a user interrupt, in run or in the handling
\* of the PID file, and another non-zero code after a remote-store error.
\* (With --defconfig main returns 0 and runs nothing. A user interrupt inside
\* the handler of AlreadyRunning is a user interrupt: main does not return 0.)
C15_ExitCodes ==
    \A p \in Procs : (p = Observed /\ lk_exit[p] # NoExit) =>
        LET left == lk_pc[p] \in {"done", "raised"} /\ pc = "exited"
            in_handler == lk_exit[p] = MainRaised /\ lk_pc[p] # "raised"
        IN  /\ lk_pc[p] = "refused" =>
                  /\ ~in_handler => lk_exit[p] = 0
                  /\ pc = "idle" /\ done = << >> /\ outcome = "none"
                  /\ l_tags = EmptyMap /\ last_history_id = NoCursor
            /\ (left /\ outcome = "ok") => lk_exit[p] = 0
            /\ (left /\ outcome = "interrupt") => lk_exit[p] # 0
            /\ (left /\ outcome = "gapi") =>
                  /\ lk_exit[p] # 0
                  /\ lk_exit[p] # main_return("interrupt")
            /\ left => outcome \in {"ok", "interrupt", "gapi"}
            /\ lk_pc[p] = "interrupted" => lk_exit[p] # 0
            /\ lk_pc[p] = "defconfig" =>
                  /\ lk_exit[p] = 0
                  /\ pc = "idle" /\ done = << >> /\ outcome = "none"

\* C16: a tag change a third party made on the remote store is not lost
\* around the push: when a run has completed and the run before it persisted
\* a cursor at or past that change, the local store has the message's remote
\* tags (local tags are pushed, so a remaining difference is a remote change
\* that no run applied and no later diff will report).
C16_NoLostRemoteUpdate ==
    (pc = "exited" /\ outcome = "ok" /\ clean /\ push_local_tags) =>
        \A i \in (DOMAIN r_tags) \cap (DOMAIN l_tags) :
            (r_mod[i] > r_born[i] /\ r_mod[i] <= last_history_id) =>
                l_tags[i] = r_tags[i]

\* C17: when a run was left by an exception before the cursor was persisted
\* and run is then executed again to its end, with no external change, the
\* message sets and tag sets of both stores and the persisted cursor are
\* those the uninterrupted run produces from the same situation.
C17_RetryConverges ==
    (trial = "retry" /\ pc = "exited" /\ outcome = "ok") =>
        FinalOf(Persistent) = FinalOf(ref)

\* C18: the cursor and the local marker are persisted together or not at
\* all: a run that has persisted its cursor does not end, by an exception
\* either, before it has persisted the local marker.
C18_CursorAndMarkerTogether ==
    [][pc = "persist_rev" => pc' \in {"persist_rev", "run_return"}]_vars

\* a remote change to message i that the ChangeSet accounts for: i is in one
\* of its three remote collections, or i came and went inside the window and
\* was never seen
Reported(i) ==
    \/ i \in changes.r_new
    \/ i \in DOMAIN changes.r_updated
    \/ i \in changes.r_deleted
    \/ r_born[i] > history_id_start /\ i \notin DOMAIN r_tags /\ i \notin r_all

\* C19: changes_full reads the remote cursor before the enumeration and again
\* after the tag comparison; it takes one diff from the first value exactly
\* when the second is greater and merges what the diff lists into the
\* ChangeSet, whose cursor is the second value: every remote change made
\* after the first read is in the returned ChangeSet or past its cursor.
C19_CatchUpCoversWindow ==
    /\ []((mode = "full" /\ done = <<"changes">>) =>
            /\ changes.history_id >= history_id_start
            /\ \A i \in DOMAIN r_born :
                  (r_mod[i] > history_id_start /\ r_mod[i] <= changes.history_id)
                      => Reported(i))
    /\ [][/\ (pc = "full_end" /\ pc' \notin {"full_end", "exited"}) =>
                /\ changes'.history_id = hid
                /\ pc' = "full_catchup" <=> hid > history_id_start
          /\ (pc = "full_catchup" /\ pc' \notin {"full_catchup", "exited"}) =>
                /\ done' = <<"changes">>
                /\ changes'.history_id = changes.history_id
                /\ get_changes(history_id_start).new \subseteq changes'.r_new
                /\ get_changes(history_id_start).deleted \subseteq changes'.r_deleted
                /\ \A i \in DOMAIN get_changes(history_id_start).updated :
                      /\ i \in DOMAIN changes'.r_updated
                      /\ changes'.r_updated[i] =
                            get_changes(history_id_start).updated[i]]_vars

\* full reconciliation has returned after three third-party changes: a
\* message was created and deleted unseen between the two cursor reads, and
\* another was created after the second read and is in the catch-up diff
C19_Witness ==
    /\ mode = "full"
    /\ done = <<"changes">>
    /\ changes.history_id > history_id_start
    /\ hid > changes.history_id
    /\ \E i \in DOMAIN r_born :
          /\ r_born[i] > history_id_start
          /\ r_mod[i] <= changes.history_id
          /\ i \notin DOMAIN r_tags
          /\ i \notin r_all
    /\ \E j \in changes.r_new \ r_all : r_mod[j] > changes.history_id

\* what conflict resolution leaves of the l_updated merge received
Remaining ==
    IF local_wins /\ push_local_tags
    THEN pre.l_updated
    ELSE DictDrop(pre.l_updated, DOMAIN pre.r_updated)

\* C20: with push_local_tags unset a run never pushes, never modifies the
\* remote store and never re-reads the cursor after change detection,
\* whatever local_wins and l_updated are; with push_local_tags set the push
\* happens only with a non-empty l_updated left by conflict resolution and
\* writes exactly those tags to the remote store.
C20_PushSwitch ==
    /\ [](pc \in {"merge_push", "merge_reread"} =>
            /\ push_local_tags
            /\ Remaining # EmptyMap
            /\ changes.l_updated = Remaining)
    /\ [][/\ ~push_local_tags =>
                /\ remoteVars' = remoteVars
                /\ (InLog("changes") /\ pc' # "exited") =>
                      changes'.history_id = changes.history_id
          /\ remoteVars' # remoteVars => pc = "merge_push"
          /\ (pc = "merge_push" /\ pc' = "merge_reread") =>
                /\ DOMAIN r_tags' = DOMAIN r_tags
                /\ \A i \in DOMAIN r_tags :
                      r_tags'[i] = IF i \in DOMAIN Remaining
                                   THEN Remaining[i] ELSE r_tags[i]]_vars

\* a run with the push disabled and local_wins set has gone through merge
\* with local changes left after conflict resolution, and has not pushed
C20_Witness ==
    /\ ~push_local_tags
    /\ local_wins
    /\ pc = "persist_rev"
    /\ InLog("resolve")
    /\ changes.l_updated # EmptyMap
    /\ (DOMAIN pre.l_updated) \cap (DOMAIN pre.r_updated) # {}
    /\ ~InLog("push")
    /\ ~InLog("reread")

\* C21: an invocation that has left run, whatever way run ended, has left no
\* PID file holding its pid, and the invocation that starts after it is never
\* refused because of it; an invocation that read the pid of a holder that
\* was killed without releasing is not refused: unless it is interrupted, it
\* goes on to write its own pid and to enter run.
C21_LockReleased ==
    /\ [](/\ lk_pc[Observed] \in {"done", "raised"} => pidfile # Observed
          /\ lk_pc[Later] = "refused" => lk_other[Later] # Observed)
    /\ [][\A p \in {Observed, Later} :
            /\ (/\ lk_pc[p] = "probe"
                /\ lk_pc[lk_other[p]] \in {"dead", "gone"}
                /\ lk_pc'[p] # "probe") => lk_pc'[p] = "write"
            /\ (lk_pc[p] = "write" /\ lk_pc'[p] \notin {"write", "interrupted"}) =>
                  lk_pc'[p] = "opened"
            /\ (lk_pc[p] = "opened" /\ lk_pc'[p] \notin {"opened", "interrupted"}) =>
                  /\ lk_pc'[p] = "written"
                  /\ lk_fd[p] = OnDisk => pidfile' = p
            /\ (lk_pc[p] = "written" /\ lk_pc'[p] \notin {"written", "interrupted"}) =>
                  lk_pc'[p] = "run"]_vars

====
